---- MODULE Spec2Model ----
(***************************************************************************)
(* A model of the lorentz_vector crate: the four-component vector type     *)
(* LorentzVector<T>, its constructors, indexing, signed addition, the      *)
(* kinematic observables (pt, pseudo_rap, getdelphi), the boost that       *)
(* carries p onto q (boost_from_to) and the interop adapters               *)
(* (structured-data decoding, host-language extraction).                   *)
(*                                                                         *)
(* The scalar type T is modelled in exact arithmetic extended with the     *)
(* IEEE specials: a scalar is (n/d)*sqrt(r) with r square-free (r = 1 for  *)
(* a rational), or +inf, -inf, NaN, or one of the two named constants      *)
(* T::max_value() / T::min_value().  Square roots of rationals are         *)
(* therefore exact.  A sum of two non-zero scalars with different          *)
(* radicands is not representable ("irr"); the operations are only driven  *)
(* with inputs on which this never happens.                                *)
(***************************************************************************)
EXTENDS Integers, Sequences, FiniteSets, TLC

(***************************************************************************)
(* Bounds of the model.                                                    *)
(***************************************************************************)
\* components of the receiver range over -MaxComp..MaxComp
MaxComp == 1
\* time and longitudinal components of a boost's source and target range
\* over -MaxBoost..MaxBoost
MaxBoost == 2
\* machine epsilon of the modelled scalar type is 2^-EpsExp
EpsExp == 4
\* longest external sequence handed to a from-sequence constructor
MaxLen == 5
\* elements of an external sequence range over 0..MaxElem
MaxElem == 1
\* indices tried by Index / IndexMut range over 0..MaxIndex
MaxIndex == 5
\* signs tried by add_signed range over -MaxSign..MaxSign
MaxSign == 2
\* accumulated relative rounding error of a computed ratio, in half-epsilons
MaxUlps == 3
\* boost velocities are (k^2 - 1)/(k^2 + 1) for k in 1..MaxSpeed, either sign
MaxSpeed == 2
\* scalar divisors of a vector range over -MaxDiv..MaxDiv
MaxDiv == 2
\* small components range over n * epsilon / 2 for n in -MaxTiny..MaxTiny
MaxTiny == 2
\* longitudinal components of the momenta of a list range over -MaxPz..MaxPz
MaxPz == 1
\* longest list of momenta
MaxMomenta == 2
\* momentum fractions are 4^-k and beam energies 4^k for k in 0..MaxScale
MaxScale == 1

(***************************************************************************)
(* Integer helpers.                                                        *)
(***************************************************************************)
IAbs(i) == IF i < 0 THEN -i ELSE i

ISgn(i) == IF i < 0 THEN -1 ELSE IF i = 0 THEN 0 ELSE 1

RECURSIVE GCD(_, _)
GCD(a, b) == IF b = 0 THEN a ELSE GCD(b, a % b)

RECURSIVE Pow2(_)
Pow2(n) == IF n = 0 THEN 1 ELSE 2 * Pow2(n - 1)

\* the largest s in lo .. hi with s * s <= m, by bisection (lo * lo <= m)
RECURSIVE SquareRootIn(_, _, _)
SquareRootIn(m, lo, hi) ==
    IF lo >= hi THEN lo
    ELSE IF ((lo + hi + 1) \div 2) * ((lo + hi + 1) \div 2) <= m
         THEN SquareRootIn(m, (lo + hi + 1) \div 2, hi)
         ELSE SquareRootIn(m, lo, ((lo + hi + 1) \div 2) - 1)

\* the numbers whose square divides m
SquareDivisors(m) ==
    {s \in 1 .. SquareRootIn(m, 1, IF m < 46340 THEN m ELSE 46340) : m % (s * s) = 0}

\* the largest number whose square divides m
SquarePart(m) ==
    IF m = 1 THEN 1
    ELSE CHOOSE s \in SquareDivisors(m) : \A t \in SquareDivisors(m) : t <= s

(***************************************************************************)
(* The scalar type T (a Float + Field).                                    *)
(***************************************************************************)
\* the finite scalar (n/d)*sqrt(r), normalised: d > 0, r >= 1
ReduceBy(m, d, r, g) == [k |-> "fin", n |-> m \div g, d |-> d \div g, r |-> r]

Reduce(m, d, r) == ReduceBy(m, d, r, GCD(IAbs(m), d))

FinBy(n, d, r, s) == Reduce(n * s, d, r \div (s * s))

Fin(n, d, r) ==
    IF n = 0 THEN [k |-> "fin", n |-> 0, d |-> 1, r |-> 1]
    ELSE IF d = 1 /\ r = 1 THEN [k |-> "fin", n |-> n, d |-> 1, r |-> 1]
    ELSE FinBy(n, d, r, SquarePart(r))

Int2F(i) == [k |-> "fin", n |-> i, d |-> 1, r |-> 1]

Zero == Int2F(0)

One == Int2F(1)

Inf(s) == [k |-> "inf", n |-> s, d |-> 1, r |-> 1]

NaN == [k |-> "nan", n |-> 0, d |-> 1, r |-> 1]

\* a value outside the modelled arithmetic
Irr == [k |-> "irr", n |-> 0, d |-> 1, r |-> 1]

\* T::max_value(): the largest finite value of the type
MaxValue == [k |-> "max", n |-> 1, d |-> 1, r |-> 1]

\* T::min_value(): the most negative finite value of the type
MinValue == [k |-> "min", n |-> -1, d |-> 1, r |-> 1]

\* T::epsilon()
Epsilon == Fin(1, Pow2(EpsExp), 1)

IsFin(a) == a.k = "fin"

IsArith(a) == a.k \in {"fin", "inf", "nan"}

FNeg(a) ==
    CASE a.k \in {"fin", "inf"} -> [a EXCEPT !.n = -a.n]
      [] a.k = "nan" -> NaN
      [] a.k = "max" -> MinValue
      [] a.k = "min" -> MaxValue
      [] OTHER -> Irr

FAbs(a) ==
    CASE a.k \in {"fin", "inf"} -> [a EXCEPT !.n = IAbs(a.n)]
      [] a.k = "nan" -> NaN
      [] a.k \in {"max", "min"} -> MaxValue
      [] OTHER -> Irr

FAdd(a, b) ==
    CASE ~IsArith(a) \/ ~IsArith(b) -> Irr
      [] a.k = "nan" \/ b.k = "nan" -> NaN
      [] a.k = "inf" /\ b.k = "inf" -> IF a.n = b.n THEN a ELSE NaN
      [] a.k = "inf" -> a
      [] b.k = "inf" -> b
      [] a.n = 0 -> b
      [] b.n = 0 -> a
      [] a.r = b.r -> Fin(a.n * b.d + b.n * a.d, a.d * b.d, a.r)
      [] OTHER -> Irr

FSub(a, b) == FAdd(a, FNeg(b))

FMul(a, b) ==
    CASE ~IsArith(a) \/ ~IsArith(b) -> Irr
      [] a.k = "nan" \/ b.k = "nan" -> NaN
      [] a.k = "inf" \/ b.k = "inf" ->
            IF a.n = 0 \/ b.n = 0 THEN NaN ELSE Inf(ISgn(a.n) * ISgn(b.n))
      [] OTHER -> Fin(a.n * b.n, a.d * b.d, a.r * b.r)

\* Inv::inv, 1/a; the zero of the model is +0
FInv(a) ==
    CASE ~IsArith(a) -> Irr
      [] a.k = "nan" -> NaN
      [] a.k = "inf" -> Zero
      [] a.n = 0 -> Inf(1)
      [] OTHER -> Fin(ISgn(a.n) * a.d, IAbs(a.n) * a.r, a.r)

FDiv(a, b) ==
    CASE ~IsArith(a) \/ ~IsArith(b) -> Irr
      [] a.k = "nan" \/ b.k = "nan" -> NaN
      [] a.k = "inf" /\ b.k = "inf" -> NaN
      [] a.k = "inf" -> Inf(a.n * (IF b.n < 0 THEN -1 ELSE 1))
      [] b.k = "inf" -> Zero
      [] b.n = 0 -> IF a.n = 0 THEN NaN ELSE Inf(ISgn(a.n))
      [] OTHER -> FMul(a, FInv(b))

FSqrt(a) ==
    CASE ~IsArith(a) -> Irr
      [] a.k = "nan" -> NaN
      [] a.n < 0 -> NaN
      [] a.k = "inf" -> a
      [] a.n = 0 -> Zero
      [] a.r # 1 -> Irr
      [] OTHER -> FinBy(1, a.d, a.n * a.d, SquarePart(a.n) * SquarePart(a.d))

\* a < b (PartialOrd: false when either side is NaN)
FLt(a, b) ==
    CASE ~IsArith(a) \/ ~IsArith(b) -> FALSE
      [] a.k = "nan" \/ b.k = "nan" -> FALSE
      [] a.k = "inf" -> a.n < 0 /\ ~(b.k = "inf" /\ b.n < 0)
      [] b.k = "inf" -> b.n > 0
      [] a.r = b.r -> a.n * b.d < b.n * a.d
      [] ISgn(a.n) # ISgn(b.n) -> ISgn(a.n) < ISgn(b.n)
      [] a.n = 0 -> FALSE
      [] a.n > 0 -> a.n * a.n * a.r * b.d * b.d < b.n * b.n * b.r * a.d * a.d
      [] OTHER -> a.n * a.n * a.r * b.d * b.d > b.n * b.n * b.r * a.d * a.d

FGt(a, b) == FLt(b, a)

\* a == b (PartialEq: NaN differs from itself)
FEq(a, b) == a.k # "nan" /\ a = b

\* f64::acos: exact at 1, symbolic inside [-1, 1], NaN outside
FAcos(a) ==
    CASE ~IsArith(a) -> Irr
      [] a.k = "nan" -> NaN
      [] FGt(FAbs(a), One) -> NaN
      [] a = One -> Zero
      [] OTHER -> [a EXCEPT !.k = "acos"]

(***************************************************************************)
(* LorentzVector<T>.                                                       *)
(***************************************************************************)
LorentzVector(t, x, y, z) == [t |-> t, x |-> x, y |-> y, z |-> z]

new == LorentzVector(Zero, Zero, Zero, Zero)

from_args(t, x, y, z) == LorentzVector(t, x, y, z)

\* Neg for LorentzVector<T>
Neg(a) == LorentzVector(FNeg(a.t), FNeg(a.x), FNeg(a.y), FNeg(a.z))

\* Add for LorentzVector<T>
Add(a, b) ==
    LorentzVector(FAdd(a.t, b.t), FAdd(a.x, b.x), FAdd(a.y, b.y), FAdd(a.z, b.z))

\* Sub for LorentzVector<T>
Sub(a, b) ==
    LorentzVector(FSub(a.t, b.t), FSub(a.x, b.x), FSub(a.y, b.y), FSub(a.z, b.z))

\* Mul<T> for LorentzVector<T>
Mul(a, s) ==
    LorentzVector(FMul(a.t, s), FMul(a.x, s), FMul(a.y, s), FMul(a.z, s))

\* Div<T>, had a zero divisor been answered with the zero vector
DivGuarded(a, s) == IF s = Zero THEN new ELSE Mul(a, FInv(s))

\* Div<T> for &LorentzVector<T>: multiplication by the inverse
Div(a, s) == LET o == FInv(s) IN Mul(a, o)

\* Div<T> for LorentzVector<T>, the receiver taken by value
DivOwned(a, s) == LET o == FInv(s) IN Mul(a, o)

square(a) ==
    FSub(FSub(FSub(FMul(a.t, a.t), FMul(a.x, a.x)), FMul(a.y, a.y)), FMul(a.z, a.z))

dot(a, b) ==
    FSub(FSub(FSub(FMul(a.t, b.t), FMul(a.x, b.x)), FMul(a.y, b.y)), FMul(a.z, b.z))

spatial_squared(a) ==
    FAdd(FAdd(FMul(a.x, a.x), FMul(a.y, a.y)), FMul(a.z, a.z))

spatial_distance(a) == FSqrt(spatial_squared(a))

euclidean_square(a) ==
    FAdd(FAdd(FAdd(FMul(a.t, a.t), FMul(a.x, a.x)), FMul(a.y, a.y)), FMul(a.z, a.z))

euclidean_distance(a) == FSqrt(euclidean_square(a))

pt(a) == FSqrt(FAdd(FMul(a.x, a.x), FMul(a.y, a.y)))

spatial_dot(a, b) ==
    FAdd(FAdd(FMul(a.x, b.x), FMul(a.y, b.y)), FMul(a.z, b.z))

(***************************************************************************)
(* boost: the boost by a velocity vector.                                  *)
(***************************************************************************)
\* gamma = (1 - b2).sqrt().inv()
Gamma(b2) == FInv(FSqrt(FSub(One, b2)))

\* gamma2, had it been computed without the test of b2
Gamma2Unguarded(gamma, b2) == FDiv(FSub(gamma, One), b2)

\* gamma2 = if b2 > 0 { (gamma - 1) / b2 } else { 0 }
Gamma2(gamma, b2) ==
    IF FGt(b2, Zero) THEN FDiv(FSub(gamma, One), b2) ELSE Zero

\* a.mul_add(b, c) = a * b + c
MulAdd(a, b, c) == FAdd(FMul(a, b), c)

BoostedWith(self, boost_vector, bp, gamma, factor) ==
    from_args(FMul(gamma, FAdd(self.t, bp)),
              MulAdd(boost_vector.x, factor, self.x),
              MulAdd(boost_vector.y, factor, self.y),
              MulAdd(boost_vector.z, factor, self.z))

\* factor = gamma2 * bp + gamma * self.t
BoostedGamma(self, boost_vector, bp, gamma, gamma2) ==
    BoostedWith(self, boost_vector, bp, gamma,
                FAdd(FMul(gamma2, bp), FMul(gamma, self.t)))

BoostedSquared(self, boost_vector, b2, bp, gamma) ==
    BoostedGamma(self, boost_vector, bp, gamma, Gamma2(gamma, b2))

boost(self, boost_vector) ==
    BoostedSquared(self, boost_vector, spatial_squared(boost_vector),
                   spatial_dot(self, boost_vector),
                   Gamma(spatial_squared(boost_vector)))

(***************************************************************************)
(* boost_from_to: the boost that sends p into q, applied to self.  The     *)
(* let-bindings of the function are passed on as parameters.               *)
(***************************************************************************)
Two == FAdd(One, One)

\* eps: the tolerance, twice machine epsilon
BoostEps == FAdd(Epsilon, Epsilon)

\* the early return, had it compared all four components
SamePositionAndTime(p, q) ==
    FLt(euclidean_distance(Sub(p, q)), FMul(BoostEps, BoostEps))

\* the early return: p and q at the same spatial position
SamePosition(p, q) ==
    FLt(spatial_distance(Sub(p, q)), FMul(BoostEps, BoostEps))

\* n_vec = q - p; n_vec = n_vec / n_vec.spatial_distance()
Normalised(d) == Div(d, spatial_distance(d))

n_vec(p, q) == Normalised(Sub(q, p))

LightconeA(n) == from_args(One, n.x, n.y, n.z)

LightconeB(n) == from_args(One, FNeg(n.x), FNeg(n.y), FNeg(n.z))

na(p, q) == LightconeA(n_vec(p, q))

nb(p, q) == LightconeB(n_vec(p, q))

\* "negligible": the light-cone component of p and that of q, each divided
\* by the vector's euclidean norm, are both below the tolerance
Negligible(pc, p_abs, qc, q_abs) ==
    /\ FLt(FDiv(pc, p_abs), BoostEps)
    /\ FLt(FDiv(qc, q_abs), BoostEps)

\* the minus-negligible branch, had it not taken the reciprocal
FromPlusNoReciprocal(ratiob) == <<ratiob, ratiob>>

\* <<ratioa, ratiob>> when only the minus pair is negligible
FromPlus(ratiob) == <<FDiv(One, ratiob), ratiob>>

\* <<ratioa, ratiob>> when only the plus pair is negligible
FromMinus(ratioa) == <<ratioa, FDiv(One, ratioa)>>

\* the four branches, had the second and the third changed places
RatiosOfSwapped(p_plus, p_minus, q_plus, q_minus, p_abs, q_abs) ==
    IF Negligible(p_minus, p_abs, q_minus, q_abs)
    THEN IF Negligible(p_plus, p_abs, q_plus, q_abs)
         THEN <<One, One>>
         ELSE FromMinus(FDiv(q_minus, p_minus))
    ELSE IF Negligible(p_plus, p_abs, q_plus, q_abs)
         THEN FromPlus(FDiv(q_plus, p_plus))
         ELSE <<FDiv(q_minus, p_minus), FDiv(q_plus, p_plus)>>

\* the pair <<ratioa, ratiob>> chosen by the four branches
RatiosOf(p_plus, p_minus, q_plus, q_minus, p_abs, q_abs) ==
    IF Negligible(p_minus, p_abs, q_minus, q_abs)
    THEN IF Negligible(p_plus, p_abs, q_plus, q_abs)
         THEN <<One, One>>
         ELSE FromPlus(FDiv(q_plus, p_plus))
    ELSE IF Negligible(p_plus, p_abs, q_plus, q_abs)
         THEN FromMinus(FDiv(q_minus, p_minus))
         ELSE <<FDiv(q_minus, p_minus), FDiv(q_plus, p_plus)>>

\* the light-cone components of p that the chosen branch divides by
DividedByOf(p_plus, p_minus, q_plus, q_minus, p_abs, q_abs) ==
    IF Negligible(p_minus, p_abs, q_minus, q_abs)
    THEN IF Negligible(p_plus, p_abs, q_plus, q_abs)
         THEN {}
         ELSE {p_plus}
    ELSE IF Negligible(p_plus, p_abs, q_plus, q_abs)
         THEN {p_minus}
         ELSE {p_minus, p_plus}

DividedByAlong(p, q, a, b) ==
    DividedByOf(dot(p, b), dot(p, a), dot(q, b), dot(q, a),
                euclidean_distance(p), euclidean_distance(q))

DividedBy(p, q) == DividedByAlong(p, q, na(p, q), nb(p, q))

RatiosAlong(p, q, a, b) ==
    RatiosOf(dot(p, b), dot(p, a), dot(q, b), dot(q, a),
             euclidean_distance(p), euclidean_distance(q))

Ratios(p, q) == RatiosAlong(p, q, na(p, q), nb(p, q))

\* self + na * (ratiob - 1) / 2 * plus + nb * (ratioa - 1) / 2 * minus
Boosted(self, a, b, ratioa, ratiob) ==
    Add(Add(self, Mul(Div(Mul(a, FSub(ratiob, One)), Two), dot(self, b))),
        Mul(Div(Mul(b, FSub(ratioa, One)), Two), dot(self, a)))

BoostedBy(self, a, b, rs) == Boosted(self, a, b, rs[1], rs[2])

BoostedAlong(self, p, q, a, b) == BoostedBy(self, a, b, RatiosAlong(p, q, a, b))

boost_from_to(self, p, q) ==
    IF SamePosition(p, q) THEN new
    ELSE BoostedAlong(self, p, q, na(p, q), nb(p, q))

(***************************************************************************)
(* boost_from_com_to_lab_frame: every momentum of the list is replaced by  *)
(* its image under the boost from source_summed to target_summed.          *)
(***************************************************************************)
\* a.copysign(z): the magnitude of a with the sign of z
CopySign(a, z) == IF z.n < 0 THEN FNeg(FAbs(a)) ELSE FAbs(a)

target_summed(momenta, x1, x2, ebeam1, ebeam2) ==
    Add(from_args(FMul(x1, ebeam1), Zero, Zero,
                  CopySign(FMul(x1, ebeam1), momenta[1].z)),
        from_args(FMul(x2, ebeam2), Zero, Zero,
                  CopySign(FMul(x2, ebeam2), momenta[2].z)))

source_summed(x1, x2, ebeam1, ebeam2) ==
    from_args(FMul(Two, FSqrt(FMul(FMul(FMul(x1, x2), ebeam1), ebeam2))),
              Zero, Zero, Zero)

\* the loop, had it taken the target from the list as it is being rewritten
RECURSIVE BoostEachRetargeting(_, _, _, _, _, _)
BoostEachRetargeting(momenta, i, x1, x2, ebeam1, ebeam2) ==
    IF i > Len(momenta) THEN momenta
    ELSE BoostEachRetargeting(
            [momenta EXCEPT ![i] =
                boost_from_to(momenta[i], source_summed(x1, x2, ebeam1, ebeam2),
                              target_summed(momenta, x1, x2, ebeam1, ebeam2))],
            i + 1, x1, x2, ebeam1, ebeam2)

boost_from_com_to_lab_frame_retargeting(momenta, x1, x2, ebeam1, ebeam2) ==
    IF Len(momenta) < 2
    THEN [tag |-> "panic", msg |-> "index out of bounds"]
    ELSE [tag |-> "unit",
          momenta |-> BoostEachRetargeting(momenta, 1, x1, x2, ebeam1, ebeam2)]

\* for vec in momenta { *vec = vec.boost_from_to(&source_summed, &target_summed) }
\* from element i on
RECURSIVE BoostEach(_, _, _, _)
BoostEach(momenta, i, source, target) ==
    IF i > Len(momenta) THEN momenta
    ELSE BoostEach([momenta EXCEPT ![i] = boost_from_to(momenta[i], source, target)],
                   i + 1, source, target)

\* the call: a panic when momenta[0] or momenta[1] is missing, otherwise
\* the list as the loop leaves it
boost_from_com_to_lab_frame(momenta, x1, x2, ebeam1, ebeam2) ==
    IF Len(momenta) < 2
    THEN [tag |-> "panic", msg |-> "index out of bounds"]
    ELSE [tag |-> "unit",
          momenta |-> BoostEach(momenta, 1, source_summed(x1, x2, ebeam1, ebeam2),
                                target_summed(momenta, x1, x2, ebeam1, ebeam2))]

(***************************************************************************)
(* What a call returns.                                                    *)
(***************************************************************************)
\* a vector returned by value, or Ok(vector)
RetVec(v) == [tag |-> "vec", v |-> v]

\* a scalar returned by value, or a reference to a component
RetScalar(x) == [tag |-> "scalar", v |-> x]

\* panic!, unreachable!, or an out-of-bounds slice index: the call aborts
Panic(msg) == [tag |-> "panic", msg |-> msg]

\* Err(..) of a Result
Err(msg) == [tag |-> "err", msg |-> msg]

RetNone == [tag |-> "none"]

(***************************************************************************)
(* Construction from a sequence (0-based v[i] is s[i + 1] here).           *)
(***************************************************************************)
\* from_slice, had it insisted on exactly four elements
from_slice_exact(v) ==
    IF Len(v) # 4 THEN Panic("index out of bounds")
    ELSE RetVec(LorentzVector(v[1], v[2], v[3], v[4]))

from_slice(v) ==
    IF Len(v) < 4 THEN Panic("index out of bounds")
    ELSE RetVec(LorentzVector(v[1], v[2], v[3], v[4]))

from_vec(v) ==
    IF Len(v) < 4 THEN Panic("index out of bounds")
    ELSE RetVec(LorentzVector(v[1], v[2], v[3], v[4]))

(***************************************************************************)
(* Decoding from structured data.  visit_seq asks the sequence for four    *)
(* elements in turn; what happens to elements it leaves unread is decided  *)
(* by the data format's deserializer, which either rejects them            *)
(* (rejects_trailing) or returns the visitor's value as it is.             *)
(***************************************************************************)
\* visit_seq, had it asked for a fifth element and refused it
visit_seq_exact(access) ==
    IF Len(access) # 4 THEN Err("Cannot read components")
    ELSE RetVec(from_args(access[1], access[2], access[3], access[4]))

visit_seq(access) ==
    IF Len(access) < 1 THEN Err("Cannot read t-component")
    ELSE IF Len(access) < 2 THEN Err("Cannot read x-component")
    ELSE IF Len(access) < 3 THEN Err("Cannot read y-component")
    ELSE IF Len(access) < 4 THEN Err("Cannot read z-component")
    ELSE RetVec(from_args(access[1], access[2], access[3], access[4]))

deserialize(input, rejects_trailing) ==
    IF Len(input) > 4 /\ rejects_trailing THEN Err("trailing elements")
    ELSE visit_seq(input)

(***************************************************************************)
(* Extraction from a host-language sequence.                               *)
(***************************************************************************)
Complex(re, im) == [re |-> re, im |-> im]

\* extract, had it handed every length but 3 to from_slice
extract_unchecked(v) ==
    IF Len(v) = 3 THEN RetVec(from_args(Zero, v[1], v[2], v[3]))
    ELSE from_slice(v)

\* FromPyObject for LorentzVector<f64>
extract(v) ==
    IF Len(v) = 3 THEN RetVec(from_args(Zero, v[1], v[2], v[3]))
    ELSE IF Len(v) = 4 THEN from_slice(v)
    ELSE Err("TypeError: Invalid list length for LorentzVector conversion")

\* FromPyObject for LorentzVector<Complex<f64>>; an item is a pair <<re, im>>
extract_complex(v) ==
    IF Len(v) = 3
    THEN RetVec(from_args(Complex(Zero, Zero), Complex(v[1][1], v[1][2]),
                          Complex(v[2][1], v[2][2]), Complex(v[3][1], v[3][2])))
    ELSE IF Len(v) = 4
    THEN RetVec(from_args(Complex(v[1][1], v[1][2]), Complex(v[2][1], v[2][2]),
                          Complex(v[3][1], v[3][2]), Complex(v[4][1], v[4][2])))
    ELSE Err("TypeError: Invalid list length for LorentzVector conversion")

(***************************************************************************)
(* Indexing and signed addition.                                           *)
(***************************************************************************)
\* Index<usize>
index(self, i) ==
    CASE i = 0 -> RetScalar(self.t)
      [] i = 1 -> RetScalar(self.x)
      [] i = 2 -> RetScalar(self.y)
      [] i = 3 -> RetScalar(self.z)
      [] OTHER -> Panic("Index is not between 0 and 3")

\* index_mut, had the arms of y and z been swapped
index_mut_swapped(self, i, val) ==
    CASE i = 0 -> RetVec([self EXCEPT !.t = val])
      [] i = 1 -> RetVec([self EXCEPT !.x = val])
      [] i = 2 -> RetVec([self EXCEPT !.z = val])
      [] i = 3 -> RetVec([self EXCEPT !.y = val])
      [] OTHER -> Panic("Index is not between 0 and 3")

\* IndexMut<usize> followed by the assignment through the reference:
\* self[i] = val; the vector after it, or the panic
index_mut(self, i, val) ==
    CASE i = 0 -> RetVec([self EXCEPT !.t = val])
      [] i = 1 -> RetVec([self EXCEPT !.x = val])
      [] i = 2 -> RetVec([self EXCEPT !.y = val])
      [] i = 3 -> RetVec([self EXCEPT !.z = val])
      [] OTHER -> Panic("Index is not between 0 and 3")

\* the operands of add_signed, had the sum been assigned to the receiver
add_signed_operands_assigning(self, other, sign) ==
    [self |-> IF sign = 1 THEN Add(self, other)
              ELSE IF sign = -1 THEN Sub(self, other)
              ELSE self,
     other |-> other]

\* the operands of add_signed after the call: the receiver is borrowed
\* mutably and other by reference; no arm assigns to either
add_signed_operands(self, other, sign) == [self |-> self, other |-> other]

\* AddAssign: self.t += other.t, ...
add_assign(self, other) ==
    LorentzVector(FAdd(self.t, other.t), FAdd(self.x, other.x),
                  FAdd(self.y, other.y), FAdd(self.z, other.z))

\* SubAssign: self.t -= other.t, ...
sub_assign(self, other) ==
    LorentzVector(FSub(self.t, other.t), FSub(self.x, other.x),
                  FSub(self.y, other.y), FSub(self.z, other.z))

\* MulAssign<T>: self.t *= other, ...
mul_assign(self, other) ==
    LorentzVector(FMul(self.t, other), FMul(self.x, other),
                  FMul(self.y, other), FMul(self.z, other))

\* add_signed, had the arm of -1 added
add_signed_adding(self, other, sign) ==
    CASE sign = 0 -> RetVec(self)
      [] sign = 1 -> RetVec(Add(self, other))
      [] sign = -1 -> RetVec(Add(self, other))
      [] OTHER -> Panic("Sign is not -1,0,1")

add_signed(self, other, sign) ==
    CASE sign = 0 -> RetVec(self)
      [] sign = 1 -> RetVec(Add(self, other))
      [] sign = -1 -> RetVec(Sub(self, other))
      [] OTHER -> Panic("Sign is not -1,0,1")

(***************************************************************************)
(* Kinematic observables.                                                  *)
(***************************************************************************)
\* -ln(tan(atan2(pt, z) / 2)), kept symbolic
PseudoRapOf(p, z) == [k |-> "eta", pt |-> p, z |-> z]

\* the degenerate case, had it tested z without its absolute value
PseudoRapAtNoAbs(p, z) ==
    IF FLt(p, Epsilon) /\ FLt(z, Epsilon)
    THEN IF FGt(z, Zero) THEN MaxValue ELSE MinValue
    ELSE PseudoRapOf(p, z)

\* the degenerate case, had it tested z >= 0
PseudoRapAtNonNegative(p, z) ==
    IF FLt(p, Epsilon) /\ FLt(FAbs(z), Epsilon)
    THEN IF ~FLt(z, Zero) THEN MaxValue ELSE MinValue
    ELSE PseudoRapOf(p, z)

PseudoRapAt(p, z) ==
    IF FLt(p, Epsilon) /\ FLt(FAbs(z), Epsilon)
    THEN IF FGt(z, Zero) THEN MaxValue ELSE MinValue
    ELSE PseudoRapOf(p, z)

pseudo_rap(self) == PseudoRapAt(pt(self), self.z)

\* a computed value carrying the relative rounding error ulps * epsilon / 2
\* accumulated by the operations that produced it
Rounded(x, ulps) == FMul(x, FAdd(One, Fin(ulps, 2 * Pow2(EpsExp), 1)))

\* tmp of getdelphi: the cosine as computed, rounding included
cos_delphi(self, p2, ulps) ==
    Rounded(FDiv(FAdd(FMul(self.x, p2.x), FMul(self.y, p2.y)),
                 FMul(pt(self), pt(p2))), ulps)

\* getdelphi, had the sentinel needed both transverse momenta to vanish
DelPhiOfBothZero(pt1, pt2, tmp) ==
    IF FEq(pt1, Zero) /\ FEq(pt2, Zero) THEN RetScalar(MaxValue)
    ELSE IF FGt(FAbs(tmp), FAdd(One, Epsilon))
    THEN Panic("Cosine larger than 1. in phase-space cuts.")
    ELSE IF FGt(FAbs(tmp), One) THEN RetScalar(FAcos(FDiv(tmp, FAbs(tmp))))
    ELSE RetScalar(FAcos(tmp))

\* getdelphi without the clamp
DelPhiOfUnclamped(pt1, pt2, tmp) ==
    IF FEq(pt1, Zero) \/ FEq(pt2, Zero) THEN RetScalar(MaxValue)
    ELSE IF FGt(FAbs(tmp), FAdd(One, Epsilon))
    THEN Panic("Cosine larger than 1. in phase-space cuts.")
    ELSE RetScalar(FAcos(tmp))

DelPhiOf(pt1, pt2, tmp) ==
    IF FEq(pt1, Zero) \/ FEq(pt2, Zero) THEN RetScalar(MaxValue)
    ELSE IF FGt(FAbs(tmp), FAdd(One, Epsilon))
    THEN Panic("Cosine larger than 1. in phase-space cuts.")
    ELSE IF FGt(FAbs(tmp), One) THEN RetScalar(FAcos(FDiv(tmp, FAbs(tmp))))
    ELSE RetScalar(FAcos(tmp))

getdelphi(self, p2, ulps) == DelPhiOf(pt(self), pt(p2), cos_delphi(self, p2, ulps))

(***************************************************************************)
(* The state: one vector (the receiver of the methods), the call in        *)
(* progress and what it returned, and the list of momenta that             *)
(* boost_from_com_to_lab_frame rewrites in place.  Calls run one at a      *)
(* time: a call is made when none is in progress, and Return takes its     *)
(* result.                                                                 *)
(***************************************************************************)
VARIABLES vec, call, ret, momenta

vars == <<vec, call, ret, momenta>>

Comp == -MaxComp .. MaxComp

\* the vectors the receiver ranges over
Vectors ==
    {from_args(Int2F(t), Int2F(x), Int2F(y), Int2F(z)) :
        t \in Comp, x \in Comp, y \in Comp, z \in Comp}

\* the second operand of add_signed
Operands ==
    {from_args(t, x, y, z) : t \in {Zero, One}, x \in {Zero, One},
                             y \in {Zero, One}, z \in {Zero, One}}

\* the second vector of getdelphi: only its transverse part is read
TransverseVectors ==
    {from_args(Zero, Int2F(x), Int2F(y), Zero) : x \in Comp, y \in Comp}

Elems == {Int2F(e) : e \in 0 .. MaxElem}

\* the external sequences of scalars
ElemSeqs == UNION {[1 .. n -> Elems] : n \in 0 .. MaxLen}

\* the items of a sequence for a complex vector: pairs <<re, im>>
PairElems == {<<Int2F(e), Int2F(MaxElem - e)>> : e \in 0 .. MaxElem}

PairSeqs == UNION {[1 .. n -> PairElems] : n \in 0 .. MaxLen}

NoCall == [op |-> "none"]

Idle == call = NoCall

Init ==
    /\ vec = new
    /\ call = NoCall
    /\ ret = RetNone
    /\ momenta = <<>>

\* a constructor's or a mutation's result becomes the vector
Bind(r) == vec' = IF r.tag = "vec" THEN r.v ELSE vec

FromArgs ==
    /\ Idle
    /\ UNCHANGED momenta
    /\ \E v \in Vectors :
        /\ call' = [op |-> "from_args"]
        /\ ret' = RetVec(v)
        /\ vec' = v

FromSlice ==
    /\ Idle
    /\ UNCHANGED momenta
    /\ \E s \in ElemSeqs :
        /\ call' = [op |-> "from_slice", seq |-> s]
        /\ ret' = from_slice(s)
        /\ Bind(from_slice(s))

FromVec ==
    /\ Idle
    /\ UNCHANGED momenta
    /\ \E s \in ElemSeqs :
        /\ call' = [op |-> "from_vec", seq |-> s]
        /\ ret' = from_vec(s)
        /\ Bind(from_vec(s))

Deserialize ==
    /\ Idle
    /\ UNCHANGED momenta
    /\ \E s \in ElemSeqs, rejects_trailing \in BOOLEAN :
        /\ call' = [op |-> "deserialize", seq |-> s,
                    rejects_trailing |-> rejects_trailing]
        /\ ret' = deserialize(s, rejects_trailing)
        /\ Bind(deserialize(s, rejects_trailing))

Extract ==
    /\ Idle
    /\ UNCHANGED momenta
    /\ \E s \in ElemSeqs :
        /\ call' = [op |-> "extract", seq |-> s]
        /\ ret' = extract(s)
        /\ Bind(extract(s))

ExtractComplex ==
    /\ Idle
    /\ UNCHANGED momenta
    /\ \E s \in PairSeqs :
        /\ call' = [op |-> "extract_complex", seq |-> s]
        /\ ret' = extract_complex(s)
        /\ UNCHANGED vec

Index ==
    /\ Idle
    /\ UNCHANGED momenta
    /\ \E i \in 0 .. MaxIndex :
        /\ call' = [op |-> "index", self |-> vec, i |-> i]
        /\ ret' = index(vec, i)
        /\ UNCHANGED vec

IndexMut ==
    /\ Idle
    /\ UNCHANGED momenta
    /\ \E i \in 0 .. MaxIndex, val \in Comp :
        /\ call' = [op |-> "index_mut", self |-> vec, i |-> i, val |-> Int2F(val)]
        /\ ret' = index_mut(vec, i, Int2F(val))
        /\ Bind(index_mut(vec, i, Int2F(val)))

AddSigned ==
    /\ Idle
    /\ UNCHANGED momenta
    /\ \E other \in Operands, sign \in -MaxSign .. MaxSign :
        /\ call' = [op |-> "add_signed", self |-> vec, other |-> other, sign |-> sign,
                    other_after |-> add_signed_operands(vec, other, sign).other]
        /\ ret' = add_signed(vec, other, sign)
        /\ vec' = add_signed_operands(vec, other, sign).self

PseudoRap ==
    /\ Idle
    /\ UNCHANGED momenta
    /\ call' = [op |-> "pseudo_rap", self |-> vec]
    /\ ret' = RetScalar(pseudo_rap(vec))
    /\ UNCHANGED vec

GetDelPhi ==
    /\ Idle
    /\ UNCHANGED momenta
    /\ \E p2 \in TransverseVectors, ulps \in -MaxUlps .. MaxUlps :
        /\ call' = [op |-> "getdelphi", self |-> vec, p2 |-> p2, ulps |-> ulps]
        /\ ret' = getdelphi(vec, p2, ulps)
        /\ UNCHANGED vec

\* the velocities of a boost
Speeds ==
    {Fin(s * (k * k - 1), k * k + 1, 1) : k \in 1 .. MaxSpeed, s \in {-1, 1}}

\* the boost vectors: a velocity along one axis, and a time component
\* that boost never reads
BoostVectors ==
    UNION {{from_args(t, b, Zero, Zero), from_args(t, Zero, b, Zero),
            from_args(t, Zero, Zero, b)} : t \in {Zero, One}, b \in Speeds}

Boost ==
    /\ Idle
    /\ UNCHANGED momenta
    /\ \E boost_vector \in BoostVectors :
        /\ call' = [op |-> "boost", self |-> vec, boost_vector |-> boost_vector]
        /\ ret' = RetVec(boost(vec, boost_vector))
        /\ UNCHANGED vec

Divisors == {Int2F(d) : d \in -MaxDiv .. MaxDiv}

\* self / s, with the receiver taken by reference or by value
DivScalar ==
    /\ Idle
    /\ UNCHANGED momenta
    /\ \E s \in Divisors, by_ref \in BOOLEAN :
        /\ call' = [op |-> "div", self |-> vec, s |-> s, by_ref |-> by_ref]
        /\ ret' = RetVec(IF by_ref THEN Div(vec, s) ELSE DivOwned(vec, s))
        /\ UNCHANGED vec

\* the caller takes the result; the next call can be made
Return ==
    /\ ~Idle
    /\ UNCHANGED momenta
    /\ call' = NoCall
    /\ ret' = RetNone
    /\ UNCHANGED vec

Next ==
    \/ FromArgs
    \/ FromSlice
    \/ FromVec
    \/ Deserialize
    \/ Extract
    \/ ExtractComplex
    \/ Index
    \/ IndexMut
    \/ AddSigned
    \/ PseudoRap
    \/ GetDelPhi
    \/ Boost
    \/ DivScalar
    \/ Return

Spec == Init /\ [][Next]_vars

(***************************************************************************)
(* The boost as a pure function: the receiver is drawn at the start, the   *)
(* source p and the target q with each call.  p and q lie on the beam axis *)
(* (x = y = 0), so that the distance between their spatial parts is        *)
(* rational; the receiver lies in the plane y = 0 with x = 0 or x = 1      *)
(* (boost_from_to treats the spatial components alike, and the transverse  *)
(* ones enter only through dot products).                                  *)
(***************************************************************************)
BoostComp == -MaxBoost .. MaxBoost

AxisVectors ==
    {from_args(Int2F(t), Zero, Zero, Int2F(z)) : t \in BoostComp, z \in BoostComp}

BoostReceivers == {v \in Vectors : v.y = Zero /\ v.x \in {Zero, One}}

InitBoost ==
    /\ vec \in BoostReceivers
    /\ call = NoCall
    /\ ret = RetNone
    /\ momenta = <<>>

BoostFromTo ==
    /\ Idle
    /\ UNCHANGED momenta
    /\ \E p \in AxisVectors, q \in AxisVectors :
        /\ call' = [op |-> "boost_from_to", self |-> vec, p |-> p, q |-> q]
        /\ ret' = RetVec(boost_from_to(vec, p, q))
        /\ UNCHANGED vec

NextBoost ==
    \/ BoostFromTo
    \/ Return

SpecBoost == InitBoost /\ [][NextBoost]_vars

(***************************************************************************)
(* The operations that write in place, each called once: either on a       *)
(* receiver drawn at the start, or on a list of momenta drawn at the       *)
(* start.                                                                  *)
(***************************************************************************)
Momenta ==
    {from_args(Int2F(MaxPz + 1), One, Zero, Int2F(z)) : z \in -MaxPz .. MaxPz}

MomentaLists == UNION {[1 .. n -> Momenta] : n \in 0 .. MaxMomenta}

\* the momentum fractions x1, x2
Fractions == {Fin(1, Pow2(2 * k), 1) : k \in 0 .. MaxScale}

\* the beam energies ebeam1, ebeam2
BeamEnergies == {Int2F(Pow2(2 * k)) : k \in 0 .. MaxScale}

InitLab ==
    /\ call = NoCall
    /\ ret = RetNone
    /\ \/ vec \in Vectors /\ momenta = <<>>
       \/ vec = new /\ momenta \in MomentaLists

\* the slice after the call
Rewritten(r) == momenta' = IF r.tag = "unit" THEN r.momenta ELSE momenta

BoostFromComToLabFrame ==
    /\ Idle
    /\ \E x1 \in Fractions, x2 \in Fractions,
          ebeam1 \in BeamEnergies, ebeam2 \in BeamEnergies :
        /\ call' = [op |-> "boost_from_com_to_lab_frame", momenta |-> momenta,
                    x1 |-> x1, x2 |-> x2, ebeam1 |-> ebeam1, ebeam2 |-> ebeam2]
        /\ ret' = [tag |-> boost_from_com_to_lab_frame(momenta, x1, x2, ebeam1, ebeam2).tag]
        /\ Rewritten(boost_from_com_to_lab_frame(momenta, x1, x2, ebeam1, ebeam2))
        /\ UNCHANGED vec

AddAssign ==
    /\ Idle
    /\ UNCHANGED momenta
    /\ \E other \in Operands :
        /\ call' = [op |-> "add_assign", self |-> vec, other |-> other]
        /\ ret' = [tag |-> "unit"]
        /\ vec' = add_assign(vec, other)

SubAssign ==
    /\ Idle
    /\ UNCHANGED momenta
    /\ \E other \in Operands :
        /\ call' = [op |-> "sub_assign", self |-> vec, other |-> other]
        /\ ret' = [tag |-> "unit"]
        /\ vec' = sub_assign(vec, other)

MulAssign ==
    /\ Idle
    /\ UNCHANGED momenta
    /\ \E other \in Divisors :
        /\ call' = [op |-> "mul_assign", self |-> vec, other |-> other]
        /\ ret' = [tag |-> "unit"]
        /\ vec' = mul_assign(vec, other)

NextLab ==
    \/ BoostFromComToLabFrame
    \/ AddSigned
    \/ AddAssign
    \/ SubAssign
    \/ MulAssign
    \/ Index
    \/ IndexMut
    \/ Boost
    \/ DivScalar

SpecLab == InitLab /\ [][NextLab]_vars

(***************************************************************************)
(* pseudo_rap as a pure function: the receiver is drawn at the start, with *)
(* components around machine epsilon as well as components of size one.    *)
(***************************************************************************)
RapComps ==
    {Fin(n, 2 * Pow2(EpsExp), 1) : n \in -MaxTiny .. MaxTiny}
        \cup {Int2F(-1), Int2F(1)}

RapReceivers == {from_args(One, x, y, z) : x \in RapComps, y \in RapComps, z \in RapComps}

InitRap ==
    /\ vec \in RapReceivers
    /\ call = NoCall
    /\ ret = RetNone
    /\ momenta = <<>>

NextRap ==
    \/ PseudoRap
    \/ Return

SpecRap == InitRap /\ [][NextRap]_vars

(***************************************************************************)
(* The properties.  Those of boost_from_to are checked under SpecBoost,    *)
(* the others under Spec.  A property reads the call in progress (its      *)
(* receiver and arguments as they were when it was made) and its result.   *)
(***************************************************************************)
\* component i of a vector, i in 0 .. 3
Component(v, i) ==
    CASE i = 0 -> v.t
      [] i = 1 -> v.x
      [] i = 2 -> v.y
      [] OTHER -> v.z

\* the vector made of the first four elements of a sequence
FirstFour(s) == [t |-> s[1], x |-> s[2], y |-> s[3], z |-> s[4]]

\* the spatial parts of p and q differ
Separated(p, q) == p.x # q.x \/ p.y # q.y \/ p.z # q.z

\* both ratios of the boost from p to q are finite numbers
FiniteRatios(p, q) == IsFin(Ratios(p, q)[1]) /\ IsFin(Ratios(p, q)[2])

\* C1 (as claimed): whenever the spatial parts of p and q differ,
\* boost_from_to(p, q) applied to p itself returns q.
C1_BoostSendsPIntoQ ==
    (call.op = "boost_from_to" /\ call.self = call.p /\ Separated(call.p, call.q))
        => ret.v = call.q

C3_PseudoRapAtRestIsMax ==
    (/\ call.op = "pseudo_rap"
     /\ call.self.x = Zero /\ call.self.y = Zero /\ call.self.z = Zero)
        => ret.v = MaxValue

\* C3 (amended): pseudo_rap of a vector with zero transverse momentum and
\* zero z, such as (1, 0, 0, 0), returns the minimum value of the type,
\* because z is not greater than zero.
C3_PseudoRapAtRestIsMin ==
    (/\ call.op = "pseudo_rap"
     /\ call.self.x = Zero /\ call.self.y = Zero /\ call.self.z = Zero)
        => ret = [tag |-> "scalar", v |-> MinValue]

\* pseudo_rap of (1, 0, 0, 0) has returned the minimum value
C3_Witness ==
    /\ call.op = "pseudo_rap"
    /\ call.self = [t |-> One, x |-> Zero, y |-> Zero, z |-> Zero]
    /\ ret.v = MinValue

\* C4 (as claimed): from_slice and from_vec panic for every length other
\* than four, shorter or longer.
C4_PanicUnlessFour ==
    (call.op \in {"from_slice", "from_vec"} /\ Len(call.seq) # 4)
        => ret.tag = "panic"

\* C4 (amended): from_slice and from_vec panic for every length shorter than
\* four and produce no vector; for four elements or more they build the
\* vector from the first four, as t, x, y, z in order, and ignore the rest.
C4_PanicIffShorterThanFour ==
    call.op \in {"from_slice", "from_vec"} =>
        IF Len(call.seq) < 4
        THEN ret.tag = "panic"
        ELSE ret = [tag |-> "vec", v |-> FirstFour(call.seq)] /\ vec = ret.v

\* a sequence of five elements has been made into a vector
C4_Witness ==
    /\ call.op = "from_slice"
    /\ Len(call.seq) = 5
    /\ call.seq[1] # call.seq[2]
    /\ ret.tag = "vec"
    /\ vec = FirstFour(call.seq)

C6_ExtractByLength ==
    /\ call.op = "extract" =>
        CASE Len(call.seq) = 3 ->
                ret = [tag |-> "vec",
                       v |-> [t |-> Zero, x |-> call.seq[1],
                              y |-> call.seq[2], z |-> call.seq[3]]]
          [] Len(call.seq) = 4 -> ret = [tag |-> "vec", v |-> FirstFour(call.seq)]
          [] OTHER ->
                ret = [tag |-> "err",
                       msg |-> "TypeError: Invalid list length for LorentzVector conversion"]
    /\ call.op = "extract_complex" =>
        CASE Len(call.seq) = 3 ->
                ret = [tag |-> "vec",
                       v |-> [t |-> [re |-> Zero, im |-> Zero],
                              x |-> [re |-> call.seq[1][1], im |-> call.seq[1][2]],
                              y |-> [re |-> call.seq[2][1], im |-> call.seq[2][2]],
                              z |-> [re |-> call.seq[3][1], im |-> call.seq[3][2]]]]
          [] Len(call.seq) = 4 ->
                ret = [tag |-> "vec",
                       v |-> [t |-> [re |-> call.seq[1][1], im |-> call.seq[1][2]],
                              x |-> [re |-> call.seq[2][1], im |-> call.seq[2][2]],
                              y |-> [re |-> call.seq[3][1], im |-> call.seq[3][2]],
                              z |-> [re |-> call.seq[4][1], im |-> call.seq[4][2]]]]
          [] OTHER ->
                ret = [tag |-> "err",
                       msg |-> "TypeError: Invalid list length for LorentzVector conversion"]

\* three elements, the first of them not zero, have become a vector with t = 0
C6_Witness ==
    /\ call.op = "extract"
    /\ Len(call.seq) = 3
    /\ call.seq[1] = One
    /\ ret.tag = "vec"
    /\ vec.t = Zero /\ vec.x = One

\* C7: when p and q have the same spatial position, boost_from_to(p, q)
\* returns the zero vector, for every receiver and every such p and q.
C7_SamePositionGivesZero ==
    (call.op = "boost_from_to" /\ ~Separated(call.p, call.q))
        => ret = [tag |-> "vec", v |-> [t |-> Zero, x |-> Zero, y |-> Zero, z |-> Zero]]

\* p and q differ in time only, the receiver is not zero, the result is
C7_Witness ==
    /\ call.op = "boost_from_to"
    /\ ~Separated(call.p, call.q)
    /\ call.p # call.q
    /\ call.self.x # Zero /\ call.self.t # Zero
    /\ ret.v = new

\* C8: add_signed returns self for sign 0, self + other for sign +1 and
\* self - other for sign -1, component by component; every other sign
\* aborts and returns nothing.
C8_AddSignedBySign ==
    call.op = "add_signed" =>
        IF call.sign \in {-1, 0, 1}
        THEN /\ ret.tag = "vec"
             /\ \A i \in 0 .. 3 :
                    Component(ret.v, i) =
                        Int2F(Component(call.self, i).n
                              + call.sign * Component(call.other, i).n)
        ELSE ret.tag = "panic"

\* a subtraction that changed the vector has been returned
C8_Witness ==
    /\ call.op = "add_signed"
    /\ call.sign = -1
    /\ call.other.x = One
    /\ ret.tag = "vec"
    /\ ret.v.x = Int2F(call.self.x.n - 1)

\* C9: a read through index 0, 1, 2, 3 gives t, x, y, z; a write through
\* index i changes component i only; every index from 4 on panics, and the
\* vector is as it was.
C9_IndexMapsComponents ==
    /\ call.op = "index" =>
        /\ vec = call.self
        /\ IF call.i <= 3
           THEN ret = [tag |-> "scalar", v |-> Component(call.self, call.i)]
           ELSE ret.tag = "panic"
    /\ call.op = "index_mut" =>
        IF call.i <= 3
        THEN /\ ret.tag = "vec"
             /\ \A j \in 0 .. 3 :
                    Component(vec, j) =
                        IF j = call.i THEN call.val ELSE Component(call.self, j)
        ELSE ret.tag = "panic" /\ vec = call.self

\* a write through index 2 has changed y
C9_Witness ==
    /\ call.op = "index_mut"
    /\ call.i = 2
    /\ call.val # call.self.y
    /\ vec.y = call.val
    /\ vec.z = call.self.z /\ vec.z # call.val

\* what getdelphi is to do with the cosine c once both transverse momenta
\* are nonzero
C10_BranchOn(c) ==
    /\ FGt(FAbs(c), FAdd(One, Epsilon)) => ret.tag = "panic"
    /\ (FGt(FAbs(c), One) /\ ~FGt(FAbs(c), FAdd(One, Epsilon))) =>
            ret = [tag |-> "scalar", v |-> FAcos(Int2F(ISgn(c.n)))]
    /\ ~FGt(FAbs(c), One) => ret = [tag |-> "scalar", v |-> FAcos(c)]
    /\ ret.tag = "scalar" => ret.v.k \in {"fin", "acos"}

\* C10: getdelphi of two vectors of nonzero transverse momentum, c being
\* the cosine as computed: it aborts if |c| > 1 + epsilon, returns the
\* inverse cosine of +1 or -1 (the sign of c) if 1 < |c| <= 1 + epsilon,
\* and acos(c) otherwise; the inverse cosine is never taken outside [-1, 1].
C10_GetDelPhiClamps ==
    (/\ call.op = "getdelphi"
     /\ pt(call.self) # Zero
     /\ pt(call.p2) # Zero)
        => C10_BranchOn(cos_delphi(call.self, call.p2, call.ulps))

\* a cosine just below -1 has been clamped: the result is acos(-1)
C10_Witness ==
    /\ call.op = "getdelphi"
    /\ pt(call.self) # Zero
    /\ pt(call.p2) # Zero
    /\ FLt(cos_delphi(call.self, call.p2, call.ulps), Int2F(-1))
    /\ ret = [tag |-> "scalar", v |-> [k |-> "acos", n |-> -1, d |-> 1, r |-> 1]]

\* C11: getdelphi returns the maximum value of the type, and neither an
\* error nor the outcome of a division by zero, whenever the receiver or
\* the other vector has zero transverse momentum (x = y = 0).
C11_GetDelPhiSentinel ==
    (/\ call.op = "getdelphi"
     /\ \/ (call.self.x = Zero /\ call.self.y = Zero)
        \/ (call.p2.x = Zero /\ call.p2.y = Zero))
        => ret = [tag |-> "scalar", v |-> [k |-> "max", n |-> 1, d |-> 1, r |-> 1]]

\* the receiver has transverse momentum, the other vector has none, and
\* the sentinel has been returned
C11_Witness ==
    /\ call.op = "getdelphi"
    /\ call.self.x # Zero
    /\ call.p2.x = Zero /\ call.p2.y = Zero
    /\ ret.tag = "scalar"
    /\ ret.v = MaxValue

\* C12: boosting any vector by a boost vector whose spatial components are
\* all zero returns the vector unchanged in all four components, whatever
\* the time component of the boost vector.
C12_ZeroBoostIsIdentity ==
    (/\ call.op = "boost"
     /\ call.boost_vector.x = Zero
     /\ call.boost_vector.y = Zero
     /\ call.boost_vector.z = Zero)
        => ret = [tag |-> "vec", v |-> call.self]

\* a vector with all components nonzero has come back unchanged from a
\* boost vector that has a time component and no velocity
C12_Witness ==
    /\ call.op = "boost"
    /\ call.boost_vector = [t |-> One, x |-> Zero, y |-> Zero, z |-> Zero]
    /\ \A i \in 0 .. 3 : Component(call.self, i) # Zero
    /\ ret.v = call.self

\* the quotient c / s of two integers as the scalar type gives it: for
\* s = 0 it is c * inv(0), an infinity with the sign of c, or NaN if c = 0
Quotient(c, s) ==
    IF s # 0 THEN Fin(ISgn(s) * c, IAbs(s), 1)
    ELSE IF c = 0 THEN [k |-> "nan", n |-> 0, d |-> 1, r |-> 1]
    ELSE [k |-> "inf", n |-> ISgn(c), d |-> 1, r |-> 1]

\* C14: the division of a vector by a scalar s, by reference or by value,
\* multiplies every component by inv(s); it always returns a vector, and
\* for s = 0 the components are those of inv(0) multiplied in (infinities
\* and NaN), never a panic or an error value.
C14_DivIsMulByInv ==
    call.op = "div" =>
        /\ ret.tag = "vec"
        /\ \A i \in 0 .. 3 :
            Component(ret.v, i) = Quotient(Component(call.self, i).n, call.s.n)

\* a vector with a zero and a nonzero component has been divided by zero
C14_Witness ==
    /\ call.op = "div"
    /\ call.s = Zero
    /\ call.self.t = Zero
    /\ call.self.x = One
    /\ ret.tag = "vec"
    /\ ret.v.t.k = "nan"
    /\ ret.v.x.k = "inf"

\* C15 (as claimed): boost_from_to never divides by a light-cone component
\* of p whose quotient by the euclidean norm of p is below twice epsilon,
\* zero included, whatever q is.
C15_NoDivisionByNegligible ==
    (call.op = "boost_from_to" /\ Separated(call.p, call.q)) =>
        \A c \in DividedBy(call.p, call.q) :
            ~FLt(FDiv(c, euclidean_distance(call.p)), Fin(2, Pow2(EpsExp), 1))

\* a pair is negligible: the component of p and that of q, each divided by
\* the euclidean norm of its vector, are below twice epsilon
PairBelow(pc, p_abs, qc, q_abs) ==
    /\ FLt(FDiv(pc, p_abs), Fin(2, Pow2(EpsExp), 1))
    /\ FLt(FDiv(qc, q_abs), Fin(2, Pow2(EpsExp), 1))

\* the ratios <<ratioa, ratiob>> by the table, the plus pair looked at first
TableOf(p_abs, q_abs, p_plus, p_minus, q_plus, q_minus) ==
    IF PairBelow(p_plus, p_abs, q_plus, q_abs)
    THEN IF PairBelow(p_minus, p_abs, q_minus, q_abs)
         THEN <<One, One>>
         ELSE <<FDiv(q_minus, p_minus), FDiv(One, FDiv(q_minus, p_minus))>>
    ELSE IF PairBelow(p_minus, p_abs, q_minus, q_abs)
         THEN <<FDiv(One, FDiv(q_plus, p_plus)), FDiv(q_plus, p_plus)>>
         ELSE <<FDiv(q_minus, p_minus), FDiv(q_plus, p_plus)>>

TableAlong(p, q, a, b) ==
    TableOf(euclidean_distance(p), euclidean_distance(q),
            dot(p, b), dot(p, a), dot(q, b), dot(q, a))

Table(p, q) == TableAlong(p, q, na(p, q), nb(p, q))

\* the ratios of the call are those of the table tb, and v is the receiver
\* moved by them along a and b
MovedByTable(self, p, q, a, b, tb, v) ==
    /\ RatiosAlong(p, q, a, b) = tb
    /\ v = BoostedBy(self, a, b, tb)

MovedAlong(self, p, q, a, b, v) ==
    MovedByTable(self, p, q, a, b, TableAlong(p, q, a, b), v)

Degenerate(v) ==
    /\ FLt(FAdd(FMul(v.x, v.x), FMul(v.y, v.y)), FMul(Epsilon, Epsilon))
    /\ FLt(FMul(v.z, v.z), FMul(Epsilon, Epsilon))

\* C17: in the degenerate case (pt and |z| both below epsilon) pseudo_rap
\* returns the maximum value of the type if z > 0 and the minimum value
\* otherwise, and not a value computed through atan2, tan and ln; outside
\* the degenerate case it returns the computed value, never one of the two.
C17_DegenerateSentinels ==
    call.op = "pseudo_rap" =>
        IF Degenerate(call.self)
        THEN ret = [tag |-> "scalar",
                    v |-> IF call.self.z.n > 0
                          THEN [k |-> "max", n |-> 1, d |-> 1, r |-> 1]
                          ELSE [k |-> "min", n |-> -1, d |-> 1, r |-> 1]]
        ELSE ret.tag = "scalar" /\ ret.v.k = "eta"

\* a vector with small nonzero transverse momentum and small positive z has
\* been given the maximum value
C17_Witness ==
    /\ call.op = "pseudo_rap"
    /\ Degenerate(call.self)
    /\ call.self.x # Zero
    /\ call.self.z.n > 0
    /\ ret.v = MaxValue

\* the longitudinal momentum of a beam of energy e along the side of z
Along(e, z) == IF z.n < 0 THEN FNeg(e) ELSE e

\* the target of the call of boost_from_com_to_lab_frame, from the list
\* as it was handed in
LabTarget(c) ==
    [t |-> FAdd(FMul(c.x1, c.ebeam1), FMul(c.x2, c.ebeam2)),
     x |-> Zero,
     y |-> Zero,
     z |-> FAdd(Along(FMul(c.x1, c.ebeam1), c.momenta[1].z),
                Along(FMul(c.x2, c.ebeam2), c.momenta[2].z))]

\* the source of the call of boost_from_com_to_lab_frame
LabSource(c) ==
    [t |-> FMul(Int2F(2), FSqrt(FMul(FMul(c.x1, c.x2), FMul(c.ebeam1, c.ebeam2)))),
     x |-> Zero, y |-> Zero, z |-> Zero]

\* C13: boost_from_com_to_lab_frame on a list of at least two momenta
\* leaves the length of the list unchanged and puts, at every position,
\* the image of the original element under boost_from_to(source, target),
\* with the one source and the one target taken from x1, x2, ebeam1,
\* ebeam2 and the signs of the z components of the first two ORIGINAL
\* elements; a shorter list makes the call abort and is left as it was.
C13_EveryMomentumBoostedOnce ==
    call.op = "boost_from_com_to_lab_frame" =>
        IF Len(call.momenta) < 2
        THEN ret.tag = "panic" /\ momenta = call.momenta
        ELSE /\ ret.tag = "unit"
             /\ Len(momenta) = Len(call.momenta)
             /\ \A i \in 1 .. Len(momenta) :
                    momenta[i] = boost_from_to(call.momenta[i], LabSource(call),
                                               LabTarget(call))

\* the boost has turned the first momentum from the side of +z to the side
\* of -z, which is the side of the second, and every component is finite
C13_Witness ==
    /\ call.op = "boost_from_com_to_lab_frame"
    /\ Len(call.momenta) = 2
    /\ call.momenta[1].z.n >= 0
    /\ call.momenta[2].z.n < 0
    /\ momenta[1].z.n < 0
    /\ \A i \in 1 .. 2 : \A j \in 0 .. 3 : IsFin(Component(momenta[i], j))
    /\ momenta[2] # call.momenta[2]

\* C18: when x1*ebeam1 = x2*ebeam2 and the first two momenta have z
\* components of opposite sign, boost_from_com_to_lab_frame leaves every
\* momentum of the list equal to its input value.
C18_CoincidentFramesIdentity ==
    (/\ call.op = "boost_from_com_to_lab_frame"
     /\ Len(call.momenta) >= 2
     /\ FMul(call.x1, call.ebeam1) = FMul(call.x2, call.ebeam2)
     /\ (call.momenta[1].z.n < 0) # (call.momenta[2].z.n < 0))
        => momenta = call.momenta

\* the operations that write to the vector they are called on
Assigning == {"index_mut", "add_assign", "sub_assign", "mul_assign"}

\* C19: a step changes a vector only if it is an indexed component
\* assignment or one of +=, -=, *=; every other operation leaves the
\* vectors it is given as they were.
C19_OnlyAssignmentsWrite ==
    [][(vec' # vec \/ momenta' # momenta) => call'.op \in Assigning]_vars

\* C19, with the writer the list has: the receiver changes only under an
\* indexed component assignment or one of +=, -=, *=; a list of momenta
\* changes only under boost_from_com_to_lab_frame, which overwrites its
\* elements in place; add_signed leaves self and other as they were for
\* every sign, and the others leave the receiver unchanged too.
C19_OnlyAssignmentsAndLabBoostWrite ==
    [][/\ vec' # vec => call'.op \in Assigning
       /\ momenta' # momenta => call'.op = "boost_from_com_to_lab_frame"
       /\ call'.op = "add_signed" =>
            /\ vec' = vec
            /\ vec' = call'.self
            /\ call'.other_after = call'.other]_vars

\* add_signed with sign +1 and a nonzero other has returned a sum that
\* differs from the receiver, and the receiver is still what it was
C19_Witness ==
    /\ call.op = "add_signed"
    /\ call.sign = 1
    /\ call.other # new
    /\ ret.tag = "vec"
    /\ ret.v # call.self
    /\ vec = call.self
    /\ call.other_after = call.other
====
